---- MODULE Spec2Model ----
(***************************************************************************)
(* Chunk-keyed XOR stream decoding (test_xor_decryption.py) and the        *)
(* benchmark-filter patcher (update-core-benchmark-filters.py).            *)
(*                                                                         *)
(* A byte is a number in 0..255.  A 32-bit unsigned integer is kept as a   *)
(* record [lo, hi] of its two 16-bit halves (value = lo + 65536 * hi):     *)
(* TLC's integers are 32-bit signed and values such as 0xd9b4bef9 do not   *)
(* fit in them.                                                            *)
(***************************************************************************)
EXTENDS Integers, Sequences, FiniteSets, TLC

VARIABLES
    \* ---- codec calls: one call sequence on one input (bytes, offset)
    data,           \* the input bytes of the call
    file_offset,    \* the absolute offset passed with them
    pc,             \* which operation has been applied to the input
    decrypted,      \* result of the first operation
    other,          \* result of the second operation compared with it
    \* ---- container scanning: one encrypted stream and a caller probing it
    lens,           \* payload lengths of the records the stream was built from
    tail,           \* what follows the last record
    plain,          \* the plaintext the stream was encrypted from
    stream,         \* the encrypted bytes, absolute offset 0 first
    scan_pos,       \* the offset the caller probes
    scan_res,       \* what scan_header returned there, NoResult before the call
    walking,        \* the probe chain started at a record's header offset
    bad_seen,       \* an earlier probe of this caller failed with BadMagic
    \* ---- the four tests as Python runs them, on shared module globals
    heap,           \* the list objects: object id -> current elements
    ref,            \* local names bound to list objects: name -> object id
    loc,            \* the other locals of the tests
    tpc,            \* test -> number of steps it has taken
    results,        \* test -> "pending", "pass" or "fail"
    \* ---- update_filter_in_file on one benchmark script
    file,           \* the content of the script at filepath
    new_filter,     \* the filter string the calls pass
    history         \* the calls made so far: content before and after, return

codecVars == <<data, file_offset, pc, decrypted, other>>
scanVars == <<lens, tail, plain, stream, scan_pos, scan_res, walking, bad_seen>>
testVars == <<heap, ref, loc, tpc, results>>
fileVars == <<file, new_filter, history>>
vars == <<codecVars, scanVars, testVars, fileVars>>

----------------------------------------------------------------------------
\* Bounds of the model

\* longest input byte sequence
MaxLen == 8
\* offsets 0..MaxOffset are all tried (every alignment, several chunks)
MaxOffset == 9
\* most records in a stream
MaxRecords == 3
\* longest script content and longest filter string, in tokens
MaxContentLen == 4
MaxFilterLen == 1

\* the byte values input sequences are built from
SampleBytes == {0, 255}

----------------------------------------------------------------------------
\* Module constants of test_xor_decryption.py

XOR_KEY1 == <<132, 34, 233, 173>>          \* 0x84 0x22 0xe9 0xad
XOR_KEY2 == <<183, 143, 255, 20>>          \* 0xb7 0x8f 0xff 0x14
ENCRYPTED_MAGIC == <<125, 156, 93, 116>>   \* 0x7d 0x9c 0x5d 0x74
EXPECTED_MAGIC == <<249, 190, 180, 217>>   \* 0xf9 0xbe 0xb4 0xd9

----------------------------------------------------------------------------
\* Python's ^ on non-negative integers

RECURSIVE BitXor(_, _)
BitXorAsOr(a, b) ==
    IF a = 0 THEN b
    ELSE IF b = 0 THEN a
    ELSE (IF a % 2 = 1 \/ b % 2 = 1 THEN 1 ELSE 0)
         + 2 * BitXor(a \div 2, b \div 2)
BitXor(a, b) ==
    IF a = 0 THEN b
    ELSE IF b = 0 THEN a
    ELSE (((a % 2) + (b % 2)) % 2) + 2 * BitXor(a \div 2, b \div 2)

\* struct.unpack('<I', bytes(b))[0]: little-endian, b[1] least significant
u32_from_bytes_be(b) ==
    [lo |-> b[4] + 256 * b[3], hi |-> b[2] + 256 * b[1]]
u32_from_bytes(b) ==
    [lo |-> b[1] + 256 * b[2], hi |-> b[3] + 256 * b[4]]

\* list(struct.pack('<I', v))
bytes_from_u32(v) ==
    <<v.lo % 256, v.lo \div 256, v.hi % 256, v.hi \div 256>>

\* a ^ b on two 32-bit values
XorU32(a, b) == [lo |-> BitXor(a.lo, b.lo), hi |-> BitXor(a.hi, b.hi)]

\* use_key1 = (pos // 4) % 2 == 0
use_key1_inverted(pos) == (pos \div 4) % 2 = 1
use_key1_bytewise(pos) == pos % 2 = 0
use_key1_round_up(pos) == ((pos + 3) \div 4) % 2 = 0
use_key1(pos) == (pos \div 4) % 2 = 0

\* key = XOR_KEY1 if use_key1 else XOR_KEY2
key_for(pos) == IF use_key1(pos) THEN XOR_KEY1 ELSE XOR_KEY2

\* key_u32 = key1_u32 if use_key1 else key2_u32, with
\* key1_u32 = u32_from_bytes(XOR_KEY1), key2_u32 = u32_from_bytes(XOR_KEY2)
\* read from the module globals as they are at the call
select_key_u32(key1, key2, pos) ==
    IF use_key1(pos) THEN u32_from_bytes(key1) ELSE u32_from_bytes(key2)
key_u32(pos) == select_key_u32(XOR_KEY1, XOR_KEY2, pos)

\* key_name = "KEY1" if use_key1 else "KEY2"
key_name(pos) == IF use_key1(pos) THEN "KEY1" ELSE "KEY2"

\* "Current implementation: u32 XOR": a 4-byte field read as a little-endian
\* integer, XORed with the key of the chunk of its offset, written back
u32_decrypt(b, pos) ==
    bytes_from_u32(XorU32(u32_from_bytes(b), key_u32(pos)))

\* "Method 1: Byte-by-byte (old way)": the key is selected once, from
\* file_offset, and indexed by the absolute position of each byte
byte_by_byte(b, pos) ==
    LET key == key_for(pos)
    IN  [i \in 1..Len(b) |-> BitXor(b[i], key[((pos + (i - 1)) % 4) + 1])]

\* The size round trip of test_size_decryption for one test case:
\* the known size is packed, encrypted and decrypted with the key of the
\* size offset; the decrypted integer is what is compared with known_size
size_round_trip(known_size, size_offset) ==
    LET known_size_bytes == bytes_from_u32(known_size)
        key == key_u32(size_offset)
        encrypted_size_u32 == XorU32(u32_from_bytes(known_size_bytes), key)
    IN  XorU32(encrypted_size_u32, key)

\* actual = [key_name for offset in range(0, 32, 4)]
rotation_actual == [k \in 1..8 |-> key_name(4 * (k - 1))]
rotation_expected ==
    <<"KEY1", "KEY2", "KEY1", "KEY2", "KEY1", "KEY2", "KEY1", "KEY2">>

----------------------------------------------------------------------------
\* The obfuscation of the format (spec sections 1 and 6): KEY1 on even
\* chunks, KEY2 on odd chunks, so the key byte of absolute position p is
\* KeyStream[(p % 8) + 1]
KeyStream == <<132, 34, 233, 173, 183, 143, 255, 20>>

----------------------------------------------------------------------------
\* ChunkedXorCodec.decrypt (spec section 4.1): per byte, the key of the
\* chunk of the byte's own absolute position

decrypt_key_once(b, absolute_offset) ==
    LET key == key_for(absolute_offset)
    IN  [i \in 1..Len(b) |->
            BitXor(b[i], key[((absolute_offset + (i - 1)) % 4) + 1])]
decrypt(b, absolute_offset) ==
    [i \in 1..Len(b) |->
        LET p == absolute_offset + (i - 1)
            byte_in_chunk == p % 4
        IN  BitXor(b[i], key_for(p)[byte_in_chunk + 1])]

----------------------------------------------------------------------------
\* Inputs

ByteSeqs == UNION {[1..n -> SampleBytes] : n \in 0..MaxLen}

\* the vectors the tests use: the encrypted magic, 1000 little-endian,
\* test_data of test 4
KnownVectors ==
    {ENCRYPTED_MAGIC, <<232, 3, 0, 0>>, <<18, 52, 86, 120>>}

\* magic and size offsets of the cases of test_size_decryption
TestOffsets == {100, 104, 200, 204}

\* the probe offset of the record-walk scenario: 100 + 8 + 50
ScenarioOffsets == {158}

Offsets == (0..MaxOffset) \cup TestOffsets \cup ScenarioOffsets

None == <<"none">>

\* scan_res before scan_header was called at scan_pos
NoResult == [kind |-> "none"]

\* the variables of container scanning, when no stream is scanned
ScanIdle ==
    /\ lens = <<>>
    /\ tail = "none"
    /\ plain = <<>>
    /\ stream = <<>>
    /\ scan_pos = 0
    /\ scan_res = NoResult
    /\ walking = FALSE
    /\ bad_seen = FALSE

\* the variables of the codec calls, when none is made
CodecIdle ==
    /\ data = <<>>
    /\ file_offset = 0
    /\ pc = "idle"
    /\ decrypted = None
    /\ other = None

\* the variables of the test run, before the module is loaded
TestIdle ==
    /\ heap = <<>>
    /\ ref = <<>>
    /\ loc = <<>>
    /\ tpc = <<>>
    /\ results = <<>>

\* the variables of the filter update, when no script is patched
FileIdle ==
    /\ file = <<>>
    /\ new_filter = <<>>
    /\ history = <<>>

Init ==
    /\ ScanIdle
    /\ TestIdle
    /\ FileIdle
    /\ data \in ByteSeqs \cup KnownVectors
    /\ file_offset \in Offsets
    /\ pc = "input"
    /\ decrypted = None
    /\ other = None

\* decrypt(data, file_offset)
Decrypt ==
    /\ pc = "input"
    /\ decrypted' = decrypt(data, file_offset)
    /\ pc' = "decrypt"
    /\ UNCHANGED <<data, file_offset, other, scanVars, testVars, fileVars>>

\* decrypt(decrypt(data, file_offset), file_offset)
DecryptAgain ==
    /\ pc = "decrypt"
    /\ other' = decrypt(decrypted, file_offset)
    /\ pc' = "again"
    /\ UNCHANGED <<data, file_offset, decrypted, scanVars, testVars, fileVars>>

\* decrypt(data[lo:hi], file_offset + lo), after the whole was decrypted
DecryptSlice ==
    /\ pc = "decrypt"
    /\ \E lo \in 0..Len(data), hi \in 0..Len(data) :
        /\ lo < hi
        /\ other' = [lo |-> lo, hi |-> hi,
                     out |-> decrypt(SubSeq(data, lo + 1, hi), file_offset + lo)]
    /\ pc' = "slice"
    /\ UNCHANGED <<data, file_offset, decrypted, scanVars, testVars, fileVars>>

\* test_magic_decryption on (data, file_offset) instead of
\* (ENCRYPTED_MAGIC, 0); the tests only decrypt 4-byte fields at
\* 4-aligned offsets
TestMagic ==
    /\ pc = "input"
    /\ Len(data) = 4
    /\ file_offset % 4 = 0
    /\ decrypted' = u32_decrypt(data, file_offset)
    /\ other' = (decrypted' = EXPECTED_MAGIC)
    /\ pc' = "magic"
    /\ UNCHANGED <<data, file_offset, scanVars, testVars, fileVars>>

\* one test case of test_size_decryption: magic at file_offset, size field
\* at file_offset + 4, known_size the integer data packs
TestSize ==
    /\ pc = "input"
    /\ Len(data) = 4
    /\ file_offset % 4 = 0
    /\ LET known_size == u32_from_bytes(data)
           size_offset == file_offset + 4
       IN  /\ decrypted' = size_round_trip(known_size, size_offset)
           /\ other' = (decrypted' = known_size)
    /\ pc' = "size"
    /\ UNCHANGED <<data, file_offset, scanVars, testVars, fileVars>>

\* test_key_rotation
TestKeyRotation ==
    /\ pc = "input"
    /\ decrypted' = rotation_actual
    /\ other' = (decrypted' = rotation_expected)
    /\ pc' = "rotation"
    /\ UNCHANGED <<data, file_offset, scanVars, testVars, fileVars>>

\* test_byte_by_byte_vs_u32 on (data, file_offset) instead of
\* ([0x12,0x34,0x56,0x78], 4)
TestByteVsU32 ==
    /\ pc = "input"
    /\ Len(data) = 4
    /\ file_offset % 4 = 0
    /\ decrypted' = byte_by_byte(data, file_offset)
    /\ other' = u32_decrypt(data, file_offset)
    /\ pc' = "bytevsu32"
    /\ UNCHANGED <<data, file_offset, scanVars, testVars, fileVars>>

CodecNext ==
    \/ Decrypt
    \/ DecryptAgain
    \/ DecryptSlice
    \/ TestMagic
    \/ TestSize
    \/ TestKeyRotation
    \/ TestByteVsU32

Next == CodecNext

Spec == Init /\ [][Next]_vars

----------------------------------------------------------------------------
\* ContainerScanner (spec section 4.2) on a stream of concatenated records

\* payload lengths of the records; 92 then 50 puts headers at 100 and 158
PayloadLengths == {1, 50, 92}

\* payload bytes are opaque to the scanner
PayloadByte(i) == (7 * i) % 256

\* a record as written: magic, little-endian length, payload
RecordBytes(len) ==
    EXPECTED_MAGIC \o bytes_from_u32([lo |-> len, hi |-> 0])
        \o [i \in 1..len |-> PayloadByte(i)]

\* what may follow the last record: nothing, a header whose magic is
\* damaged, or a header declaring 0xffffffff payload bytes that are not there
Tails == {"none", "badmagic", "hugelen"}
TailBytes(t) ==
    CASE t = "none" -> <<>>
      [] t = "badmagic" -> <<249, 190, 180, 216>> \o <<5, 0, 0, 0>>
      [] t = "hugelen" -> EXPECTED_MAGIC \o <<255, 255, 255, 255>>

RECURSIVE RecordsBytes(_)
RecordsBytes(ls) ==
    IF ls = <<>> THEN <<>>
    ELSE RecordBytes(Head(ls)) \o RecordsBytes(Tail(ls))

\* the plaintext of a stream
PlainOf(ls, t) == RecordsBytes(ls) \o TailBytes(t)

\* the stream as the writer of the format stored it: every byte XORed with
\* the byte of its absolute position in the repeating sequence KEY1 KEY2
EncryptStream(p) ==
    [i \in 1..Len(p) |-> BitXor(p[i], KeyStream[((i - 1) % 8) + 1])]

\* header offset of record k (1-based), and the offset after the last record
RECURSIVE HeaderOffset(_, _)
HeaderOffset(ls, k) ==
    IF k = 1 THEN 0 ELSE HeaderOffset(ls, k - 1) + 8 + ls[k - 1]
HeaderOffsets(ls) == {HeaderOffset(ls, k) : k \in 1..Len(ls)}
RecordsEnd(ls) == HeaderOffset(ls, Len(ls) + 1)

\* scan_header(stream, absolute_offset)
scan_header(s, absolute_offset) ==
    IF Len(s) - absolute_offset < 8
    THEN [kind |-> "TruncatedInput"]
    ELSE LET header == decrypt(SubSeq(s, absolute_offset + 1, absolute_offset + 8),
                               absolute_offset)
         IN  IF SubSeq(header, 1, 4) # EXPECTED_MAGIC
             THEN [kind |-> "BadMagic"]
             ELSE [kind |-> "Ok", magic_valid |-> TRUE,
                   declared_length |-> u32_from_bytes(SubSeq(header, 5, 8))]

LengthSeqs == UNION {[1..n -> PayloadLengths] : n \in 0..MaxRecords}

ScanInit ==
    /\ CodecIdle
    /\ TestIdle
    /\ FileIdle
    /\ lens \in LengthSeqs
    /\ tail \in Tails
    /\ plain = PlainOf(lens, tail)
    /\ stream = EncryptStream(plain)
    /\ scan_pos = 0
    /\ scan_res = NoResult
    /\ walking = TRUE
    /\ bad_seen = FALSE

\* the caller probes scan_pos
ScanHeader ==
    /\ scan_res = NoResult
    /\ scan_res' = scan_header(stream, scan_pos)
    /\ UNCHANGED <<lens, tail, plain, stream, scan_pos, walking, bad_seen, codecVars, testVars, fileVars>>

\* next_offset = this_offset + 8 + declared_length, bound-checked by the
\* caller against the stream
WalkNext ==
    /\ scan_res # NoResult
    /\ scan_res.kind = "Ok"
    /\ scan_res.declared_length.hi = 0
    /\ scan_pos + 8 + scan_res.declared_length.lo <= Len(stream)
    /\ scan_pos' = scan_pos + 8 + scan_res.declared_length.lo
    /\ scan_res' = NoResult
    /\ UNCHANGED <<lens, tail, plain, stream, walking, bad_seen, codecVars, testVars, fileVars>>

\* the caller probes the next candidate offset (scanning for a record
\* boundary after BadMagic, or looking anywhere else in the stream)
Seek ==
    /\ scan_res # NoResult
    /\ scan_pos < Len(stream)
    /\ scan_pos' = scan_pos + 1
    /\ walking' = (scan_pos' \in HeaderOffsets(lens))
    /\ scan_res' = NoResult
    /\ bad_seen' = (bad_seen \/ scan_res.kind = "BadMagic")
    /\ UNCHANGED <<lens, tail, plain, stream, codecVars, testVars, fileVars>>

ScanNext ==
    \/ ScanHeader
    \/ WalkNext
    \/ Seek

SpecScan == ScanInit /\ [][ScanNext]_vars

----------------------------------------------------------------------------
\* Claims about the scanner

\* C7: on a stream encrypted as one stream from offset 0, a walk that starts
\* at a record's header offset and moves by 8 + declared_length probes only
\* header offsets (or the end of the records), and every probe of a header
\* finds a valid magic and the record's true length, aligned or not
Thm_C7_Walk ==
    /\ walking => scan_pos \in HeaderOffsets(lens) \cup {RecordsEnd(lens)}
    /\ \A k \in 1..Len(lens) :
        (scan_pos = HeaderOffset(lens, k) /\ scan_res # NoResult) =>
            /\ scan_res.kind = "Ok"
            /\ scan_res.magic_valid
            /\ scan_res.declared_length = [lo |-> lens[k], hi |-> 0]
Wit_C7_Walk ==
    /\ walking
    /\ tail = "none"
    /\ lens = <<92, 50, 1>>
    /\ scan_pos = 158
    /\ scan_res # NoResult
    /\ scan_res.kind = "Ok"
    /\ scan_res.declared_length = [lo |-> 1, hi |-> 0]
    /\ ~use_key1(scan_pos)
    \* the u32 path of the tests, applied at this unaligned offset, would
    \* not find the magic
    /\ u32_decrypt(SubSeq(stream, scan_pos + 1, scan_pos + 4), scan_pos)
            # EXPECTED_MAGIC

\* C8: with 8 bytes available, scan_header fails with BadMagic exactly when
\* the 4 plaintext bytes at the offset are not f9 be b4 d9; otherwise it
\* returns magic_valid and the next 4 plaintext bytes as a little-endian
\* 32-bit value, however large; the stream is never changed, so a probe
\* after a failed one sees what it would have seen without it
Thm_C8_ScanHeader ==
    /\ [][stream' = stream /\ plain' = plain]_vars
    /\ []((scan_res # NoResult /\ Len(stream) - scan_pos >= 8) =>
            LET magic == SubSeq(plain, scan_pos + 1, scan_pos + 4)
                size == SubSeq(plain, scan_pos + 5, scan_pos + 8)
            IN  /\ scan_res.kind \in {"BadMagic", "Ok"}
                /\ scan_res.kind = "BadMagic" <=> magic # <<249, 190, 180, 217>>
                /\ scan_res.kind = "Ok" =>
                    /\ scan_res.magic_valid
                    /\ scan_res.declared_length =
                        [lo |-> size[1] + 256 * size[2],
                         hi |-> size[3] + 256 * size[4]])
Wit_C8_ScanHeader ==
    /\ bad_seen
    /\ tail = "hugelen"
    /\ scan_res # NoResult
    /\ scan_res.kind = "Ok"
    /\ scan_res.declared_length = [lo |-> 65535, hi |-> 65535]
    /\ scan_pos % 4 # 0

----------------------------------------------------------------------------
\* Claims about the codec

\* C1: decrypting twice at the same offset gives the input back, for every
\* length (empty, not a multiple of 4) and every offset (aligned or not);
\* a size packed, encrypted and decrypted at its size offset is unchanged,
\* 1000 in particular
Thm_C1_Involution ==
    /\ pc = "again" => other = data
    /\ pc = "size" =>
        /\ other = TRUE
        /\ bytes_from_u32(decrypted) = data
        /\ data = <<232, 3, 0, 0>> => decrypted = [lo |-> 1000, hi |-> 0]
Wit_C1_Involution ==
    /\ pc = "again"
    /\ Len(data) % 4 # 0
    /\ file_offset % 4 # 0
    /\ decrypted # data
    /\ other = data

\* C2: at a 4-aligned offset the byte-by-byte method and the u32 method
\* give the same 4 bytes
Thm_C2_ByteVsU32 ==
    pc = "bytevsu32" => decrypted = other
Wit_C2_ByteVsU32 ==
    /\ pc = "bytevsu32"
    /\ data = <<18, 52, 86, 120>>
    /\ file_offset = 4
    /\ decrypted = other

\* C3: the encrypted magic at offset 0 decrypts to f9 be b4 d9, by the u32
\* path, by the byte-by-byte path and by decrypt
Thm_C3_KnownVector ==
    (data = <<125, 156, 93, 116>> /\ file_offset = 0) =>
        /\ pc = "magic" => (decrypted = <<249, 190, 180, 217>> /\ other = TRUE)
        /\ pc = "bytevsu32" =>
            (decrypted = <<249, 190, 180, 217>> /\ other = <<249, 190, 180, 217>>)
        /\ pc = "decrypt" => decrypted = <<249, 190, 180, 217>>
Wit_C3_KnownVector ==
    /\ pc = "magic"
    /\ data = <<125, 156, 93, 116>>
    /\ file_offset = 0
    /\ other = TRUE

\* C4: the key of an offset is KEY1 when its chunk index is even and KEY2
\* when it is odd; offsets 0,4,..,28 give KEY1,KEY2,... alternating; the key
\* changes 4 bytes on and is the same 8 bytes on
Thm_C4_KeyRotation ==
    /\ pc = "rotation" =>
        /\ decrypted =
            <<"KEY1", "KEY2", "KEY1", "KEY2", "KEY1", "KEY2", "KEY1", "KEY2">>
        /\ other = TRUE
    /\ key_for(file_offset) =
        (IF file_offset % 8 < 4 THEN <<132, 34, 233, 173>>
                                ELSE <<183, 143, 255, 20>>)
    /\ key_name(file_offset) = (IF file_offset % 8 < 4 THEN "KEY1" ELSE "KEY2")
    /\ key_for(file_offset + 4) # key_for(file_offset)
    /\ key_for(file_offset + 8) = key_for(file_offset)
Wit_C4_KeyRotation ==
    /\ pc = "rotation"
    /\ other = TRUE
    /\ file_offset = 158

Thm_C6_SubSlice ==
    pc = "slice" => other.out = SubSeq(decrypted, other.lo + 1, other.hi)
Wit_C6_SubSlice ==
    /\ pc = "slice"
    /\ Len(data) = 8
    /\ file_offset = 0
    /\ other.lo = 4
    /\ other.hi = 8
    /\ other.out # SubSeq(data, 5, 8)

----------------------------------------------------------------------------
\* The four tests as Python runs them.  Lists are objects: a name is bound
\* to an object, list.copy() makes a new object, and an in-place update
\* changes the object under every name bound to it.  The module globals
\* XOR_KEY1, XOR_KEY2, ENCRYPTED_MAGIC and EXPECTED_MAGIC are such objects.

Globals == {"XOR_KEY1", "XOR_KEY2", "ENCRYPTED_MAGIC", "EXPECTED_MAGIC"}
Objects ==
    Globals \cup {"t1.encrypted_magic", "t3.actual", "t4.test_data", "t4.copy"}
Tests == {"t1", "t2", "t3", "t4"}

\* test_cases of test_size_decryption: (magic_start_pos, size_offset)
test_cases == <<<<0, 4>>, <<100, 104>>, <<200, 204>>>>

\* known_size = 1000
known_size_1000 == [lo |-> 1000, hi |-> 0]

\* test_data and file_offset of test_byte_by_byte_vs_u32
test_data_t4 == <<18, 52, 86, 120>>
file_offset_t4 == 4

\* x = y.copy(): the object x is bound to, given the object of y and a
\* fresh one
copy_target_alias(src, fresh) == src
copy_target(src, fresh) == fresh

TestInit ==
    /\ CodecIdle
    /\ ScanIdle
    /\ FileIdle
    /\ heap = [o \in Objects |->
                CASE o = "XOR_KEY1" -> XOR_KEY1
                  [] o = "XOR_KEY2" -> XOR_KEY2
                  [] o = "ENCRYPTED_MAGIC" -> ENCRYPTED_MAGIC
                  [] o = "EXPECTED_MAGIC" -> EXPECTED_MAGIC
                  [] OTHER -> <<>>]
    /\ ref = [encrypted_magic |-> "unbound", decrypted_byte_by_byte |-> "unbound",
              key |-> "unbound"]
    /\ loc = [decrypted_magic |-> <<>>, all_pass |-> TRUE, decrypted_new |-> <<>>]
    /\ tpc = [t \in Tests |-> 0]
    /\ results = [t \in Tests |-> "pending"]

Verdict(ok) == IF ok THEN "pass" ELSE "fail"

\* test_magic_decryption, line 26: encrypted_magic = ENCRYPTED_MAGIC.copy()
T1Copy ==
    /\ tpc["t1"] = 0
    /\ LET obj == copy_target("ENCRYPTED_MAGIC", "t1.encrypted_magic")
       IN  /\ heap' = [heap EXCEPT ![obj] = heap["ENCRYPTED_MAGIC"]]
           /\ ref' = [ref EXCEPT !.encrypted_magic = obj]
    /\ tpc' = [tpc EXCEPT !["t1"] = 1]
    /\ UNCHANGED <<loc, results, codecVars, scanVars, fileVars>>

\* lines 29-36: the u32 XOR with the key of chunk 0
T1Decrypt ==
    /\ tpc["t1"] = 1
    /\ LET key == select_key_u32(heap["XOR_KEY1"], heap["XOR_KEY2"], 0)
           magic_u32 == u32_from_bytes(heap[ref.encrypted_magic])
       IN  loc' = [loc EXCEPT !.decrypted_magic =
                        bytes_from_u32(XorU32(magic_u32, key))]
    /\ tpc' = [tpc EXCEPT !["t1"] = 2]
    /\ UNCHANGED <<heap, ref, results, codecVars, scanVars, fileVars>>

\* lines 45-50: return decrypted_magic == EXPECTED_MAGIC
T1Return ==
    /\ tpc["t1"] = 2
    /\ results' = [results EXCEPT
                    !["t1"] = Verdict(loc.decrypted_magic = heap["EXPECTED_MAGIC"])]
    /\ tpc' = [tpc EXCEPT !["t1"] = 3]
    /\ UNCHANGED <<heap, ref, loc, codecVars, scanVars, fileVars>>

\* test_size_decryption, lines 66-96: one iteration of the loop
T2Case ==
    /\ tpc["t2"] \in 0..2
    /\ LET size_offset == test_cases[tpc["t2"] + 1][2]
           known_size_bytes == bytes_from_u32(known_size_1000)
           key == select_key_u32(heap["XOR_KEY1"], heap["XOR_KEY2"], size_offset)
           encrypted_size_u32 == XorU32(u32_from_bytes(known_size_bytes), key)
           decrypted_size == XorU32(encrypted_size_u32, key)
       IN  loc' = [loc EXCEPT !.all_pass = @ /\ (decrypted_size = known_size_1000)]
    /\ tpc' = [tpc EXCEPT !["t2"] = @ + 1]
    /\ UNCHANGED <<heap, ref, results, codecVars, scanVars, fileVars>>

\* line 98: return all_pass
T2Return ==
    /\ tpc["t2"] = 3
    /\ results' = [results EXCEPT !["t2"] = Verdict(loc.all_pass)]
    /\ tpc' = [tpc EXCEPT !["t2"] = 4]
    /\ UNCHANGED <<heap, ref, loc, codecVars, scanVars, fileVars>>

\* test_key_rotation, lines 117-121: one iteration, actual.append(key_name)
T3Append ==
    /\ tpc["t3"] \in 0..7
    /\ heap' = [heap EXCEPT !["t3.actual"] = Append(@, key_name(4 * tpc["t3"]))]
    /\ tpc' = [tpc EXCEPT !["t3"] = @ + 1]
    /\ UNCHANGED <<ref, loc, results, codecVars, scanVars, fileVars>>

\* lines 123-128: return actual == expected
T3Return ==
    /\ tpc["t3"] = 8
    /\ results' = [results EXCEPT
                    !["t3"] = Verdict(heap["t3.actual"] = rotation_expected)]
    /\ tpc' = [tpc EXCEPT !["t3"] = 9]
    /\ UNCHANGED <<heap, ref, loc, codecVars, scanVars, fileVars>>

\* test_byte_by_byte_vs_u32, lines 137-143: test_data is made,
\* decrypted_byte_by_byte = test_data.copy(), key is bound to a global
T4Copy ==
    /\ tpc["t4"] = 0
    /\ LET obj == copy_target("t4.test_data", "t4.copy")
       IN  /\ heap' = [heap EXCEPT !["t4.test_data"] = test_data_t4,
                                   ![obj] = test_data_t4]
           /\ ref' = [ref EXCEPT
                        !.decrypted_byte_by_byte = obj,
                        !.key = IF use_key1(file_offset_t4) THEN "XOR_KEY1"
                                                            ELSE "XOR_KEY2"]
    /\ tpc' = [tpc EXCEPT !["t4"] = 1]
    /\ UNCHANGED <<loc, results, codecVars, scanVars, fileVars>>

\* lines 144-146: decrypted_byte_by_byte[i] ^= key[byte_offset % 4]
T4XorByte ==
    /\ tpc["t4"] \in 1..4
    /\ LET i == tpc["t4"] - 1
           byte_offset == file_offset_t4 + i
           obj == ref.decrypted_byte_by_byte
       IN  heap' = [heap EXCEPT ![obj][i + 1] =
                        BitXor(@, heap[ref.key][(byte_offset % 4) + 1])]
    /\ tpc' = [tpc EXCEPT !["t4"] = @ + 1]
    /\ UNCHANGED <<ref, loc, results, codecVars, scanVars, fileVars>>

\* lines 149-156: the u32 XOR of test_data
T4U32 ==
    /\ tpc["t4"] = 5
    /\ LET key == select_key_u32(heap["XOR_KEY1"], heap["XOR_KEY2"],
                                 file_offset_t4)
           data_u32 == u32_from_bytes(heap["t4.test_data"])
       IN  loc' = [loc EXCEPT !.decrypted_new =
                        bytes_from_u32(XorU32(data_u32, key))]
    /\ tpc' = [tpc EXCEPT !["t4"] = 6]
    /\ UNCHANGED <<heap, ref, results, codecVars, scanVars, fileVars>>

\* lines 163-169: return decrypted_byte_by_byte == decrypted_new
T4Return ==
    /\ tpc["t4"] = 6
    /\ results' = [results EXCEPT
                    !["t4"] = Verdict(heap[ref.decrypted_byte_by_byte]
                                        = loc.decrypted_new)]
    /\ tpc' = [tpc EXCEPT !["t4"] = 7]
    /\ UNCHANGED <<heap, ref, loc, codecVars, scanVars, fileVars>>

\* the tests in any order and interleaving; __main__ runs them one after
\* the other
TestNext ==
    \/ T1Copy
    \/ T1Decrypt
    \/ T1Return
    \/ T2Case
    \/ T2Return
    \/ T3Append
    \/ T3Return
    \/ T4Copy
    \/ T4XorByte
    \/ T4U32
    \/ T4Return

SpecTests == TestInit /\ [][TestNext]_vars

\* C9: whatever the order or interleaving of the four tests, the module
\* globals keep their initial values, and every test that has returned
\* passed with the values it computes when run alone
Thm_C9_NoSharedState ==
    /\ heap["XOR_KEY1"] = <<132, 34, 233, 173>>
    /\ heap["XOR_KEY2"] = <<183, 143, 255, 20>>
    /\ heap["ENCRYPTED_MAGIC"] = <<125, 156, 93, 116>>
    /\ heap["EXPECTED_MAGIC"] = <<249, 190, 180, 217>>
    /\ results["t1"] # "pending" =>
        /\ results["t1"] = "pass"
        /\ loc.decrypted_magic = u32_decrypt(ENCRYPTED_MAGIC, 0)
    /\ results["t2"] # "pending" => results["t2"] = "pass"
    /\ results["t3"] # "pending" =>
        /\ results["t3"] = "pass"
        /\ heap["t3.actual"] = rotation_actual
    /\ results["t4"] # "pending" =>
        /\ results["t4"] = "pass"
        /\ heap["t4.test_data"] = test_data_t4
        /\ heap[ref.decrypted_byte_by_byte] = byte_by_byte(test_data_t4, 4)
        /\ loc.decrypted_new = u32_decrypt(test_data_t4, 4)
\* t3 has returned while t4 is inside its loop, t2 inside its own and t1
\* has only copied the magic: a state no sequential run reaches
Wit_C9_NoSharedState ==
    /\ results["t3"] = "pass"
    /\ tpc["t4"] = 3
    /\ tpc["t2"] = 1
    /\ tpc["t1"] = 1
    /\ heap[ref.decrypted_byte_by_byte] # test_data_t4

----------------------------------------------------------------------------
\* update_filter_in_file.  Text is a sequence of tokens:
\*   "P"  the eight characters -filter=
\*   "Q"  a double quote
\*   "x"  any other character
\* and in a filter string also
\*   "G"  \g<0>, the template's reference to the whole match
\*   "E"  \q, a backslash escape the template parser rejects

ContentTokens == {"P", "Q", "x"}
FilterTokens == {"x", "Q", "G", "E"}

\* index of the first double quote of c at or after i, 0 if there is none
FirstQuote(c, i) ==
    LET qs == {j \in i..Len(c) : c[j] = "Q"}
    IN  IF qs = {} THEN 0 ELSE CHOOSE j \in qs : \A k \in qs : j <= k

\* pattern = r'-filter="[^"]*"' tried at index i: the index of the closing
\* quote of the match, 0 if there is no match starting at i
MatchEnd(c, i) ==
    IF i + 1 <= Len(c) /\ c[i] = "P" /\ c[i + 1] = "Q"
    THEN FirstQuote(c, i + 2)
    ELSE 0

HasMatch(c) == \E i \in 1..Len(c) : MatchEnd(c, i) # 0

\* the template parser raises re.error on a bad escape, match or no match
TemplateRaises(f) == \E i \in 1..Len(f) : f[i] = "E"

\* replacement = f'-filter="{new_filter}"' expanded for the match m
RECURSIVE ExpandFilter(_, _)
ExpandFilter(f, m) ==
    IF f = <<>> THEN <<>>
    ELSE (IF Head(f) = "G" THEN m ELSE <<Head(f)>>) \o ExpandFilter(Tail(f), m)
Replacement(f, m) == <<"P", "Q">> \o ExpandFilter(f, m) \o <<"Q">>

\* re.sub(pattern, replacement, content), from index i on: leftmost
\* matches, not overlapping
RECURSIVE SubFrom(_, _, _)
SubFrom(c, i, f) ==
    IF i > Len(c) THEN <<>>
    ELSE LET e == MatchEnd(c, i)
         IN  IF e # 0
             THEN Replacement(f, SubSeq(c, i, e)) \o SubFrom(c, e + 1, f)
             ELSE <<c[i]>> \o SubFrom(c, i + 1, f)
re_sub(c, f) == SubFrom(c, 1, f)

\* where the environment makes a call fail: nowhere, at open/read, at
\* open(filepath, 'w') (nothing is written), or inside the with block
\* after the file was truncated
Faults == {"none", "read", "open_write", "write"}

\* update_filter_in_file(filepath, new_filter) on content c: the outcomes
\* [file, ret, raised] it can have under the fault; raised names what
\* raised the exception the function caught, "no" when nothing did
update_always_writes(c, f, fault) ==
    IF fault = "read"
    THEN {[file |-> c, ret |-> FALSE, raised |-> "read"]}
    ELSE IF TemplateRaises(f)
    THEN {[file |-> c, ret |-> FALSE, raised |-> "re.sub"]}
    ELSE {[file |-> re_sub(c, f), ret |-> TRUE, raised |-> "no"]}
update_filter_in_file(c, f, fault) ==
    IF fault = "read"
    THEN {[file |-> c, ret |-> FALSE, raised |-> "read"]}
    ELSE IF TemplateRaises(f)
    THEN {[file |-> c, ret |-> FALSE, raised |-> "re.sub"]}
    ELSE LET new_content == re_sub(c, f)
         IN  IF new_content = c
             THEN {[file |-> c, ret |-> FALSE, raised |-> "no"]}
             ELSE CASE fault = "open_write" ->
                        {[file |-> c, ret |-> FALSE, raised |-> "open_write"]}
                    [] fault = "write" ->
                        {[file |-> SubSeq(new_content, 1, k), ret |-> FALSE,
                          raised |-> "write"] : k \in 0..Len(new_content)}
                    [] OTHER ->
                        {[file |-> new_content, ret |-> TRUE, raised |-> "no"]}

ContentSeqs == UNION {[1..n -> ContentTokens] : n \in 0..MaxContentLen}
FilterSeqs == UNION {[1..n -> FilterTokens] : n \in 0..MaxFilterLen}

FileInit ==
    /\ CodecIdle
    /\ ScanIdle
    /\ TestIdle
    /\ file \in ContentSeqs
    /\ new_filter \in FilterSeqs
    /\ history = <<>>

\* one call update_filter_in_file(filepath, new_filter)
Call ==
    /\ \E fault \in Faults :
        \E o \in update_filter_in_file(file, new_filter, fault) :
            /\ file' = o.file
            /\ history' = Append(history,
                                 [before |-> file, after |-> o.file, ret |-> o.ret,
                                  raised |-> o.raised])
    /\ UNCHANGED <<new_filter, codecVars, scanVars, testVars>>

\* the script is patched by a run of update-core-benchmark-filters.py
FirstCall ==
    /\ history = <<>>
    /\ Call

\* and patched again, with the same filter, by a second run
SecondCall ==
    /\ Len(history) = 1
    /\ Call

FileNext ==
    \/ FirstCall
    \/ SecondCall

SpecFilter == FileInit /\ [][FileNext]_vars

\* C10 as stated: a second call with the same filter returns False and
\* changes nothing; a call returns True exactly when the content differs
\* afterwards; with no occurrence, or when reading or writing raises, it
\* returns False and the file is untouched
Orig_C10_Idempotent ==
    /\ Len(history) >= 2 =>
        (history[2].ret = FALSE /\ history[2].after = history[2].before)
    /\ \A i \in 1..Len(history) :
        /\ history[i].ret = TRUE <=> history[i].after # history[i].before
        /\ (~HasMatch(history[i].before) \/ history[i].raised # "no") =>
            (history[i].ret = FALSE /\ history[i].after = history[i].before)

\* a filter string with no double quote and no backslash
PlainFilter(f) == \A i \in 1..Len(f) : f[i] \notin {"Q", "G", "E"}

\* C10 amended: for a filter with no double quote and no backslash, a call
\* that follows a call that raised nothing returns False and changes
\* nothing; True is returned exactly when new, different content was
\* written without an exception; the file is untouched when there is no
\* occurrence, when nothing changes, or when reading, the substitution or
\* opening for writing raises; a failed write returns False and leaves a
\* prefix of the new content
Thm_C10_Idempotent ==
    \A i \in 1..Len(history) :
        LET h == history[i]
        IN  /\ (i >= 2 /\ PlainFilter(new_filter) /\ history[i - 1].raised = "no") =>
                (h.ret = FALSE /\ h.after = h.before)
            /\ h.ret = TRUE <=>
                (h.raised = "no" /\ h.after # h.before
                    /\ h.after = re_sub(h.before, new_filter))
            /\ (~HasMatch(h.before) \/ h.raised \in {"read", "re.sub", "open_write"}) =>
                (h.ret = FALSE /\ h.after = h.before)
            /\ h.raised = "write" =>
                /\ h.ret = FALSE
                /\ \E k \in 0..Len(re_sub(h.before, new_filter)) :
                    h.after = SubSeq(re_sub(h.before, new_filter), 1, k)
\* a script with an occurrence was rewritten by the first call and left
\* alone by the second
Wit_C10_Idempotent ==
    /\ Len(history) = 2
    /\ PlainFilter(new_filter)
    /\ new_filter # <<>>
    /\ history[1].ret = TRUE
    /\ history[2].raised = "no"
    /\ history[2].ret = FALSE
    /\ file = history[1].after

====
